---- MODULE Spec2Model ----
(***************************************************************************)
(* Model of MysqlDBConnection and MysqlDBFactory                            *)
(* (src/src/MysqlDBFactory.ts): wrappers over the physical connections of  *)
(* a mysql2 pool.  Every method is one action; the answer of the driver or *)
(* of the pool to a call is an input of the action.  Spec and SpecNorm     *)
(* follow a single wrapper, SpecProtocol the transaction script of the     *)
(* README, SpecPool callers that share the pool.                           *)
(* JavaScript values are tagged records (field t); strings that the code   *)
(* manipulates character by character (column names) are sequences of      *)
(* one-character strings.                                                  *)
(***************************************************************************)
EXTENDS Integers, Sequences, FiniteSets, TLC

VARIABLES released, trace, last, nops, pc, free, client, acquired

vars == <<released, trace, last, nops, pc, free, client, acquired>>

\* the state of the factory, of its pool and of the scripted caller
factoryVars == <<pc, free, client, acquired>>

\* last before any method was called
NoCall == [op |-> "none"]

(* ------------------------------ bounds --------------------------------- *)

\* number of wrapper operations in one behaviour
MaxOps == 2

\* largest affected-row count the server reports
MaxAffected == 1

\* largest number of rows in a driver row set
MaxRows == 2

\* largest number of columns in a driver row set
MaxCols == 2

\* number of factory and wrapper calls in one behaviour of the callers that
\* share the pool
MaxPoolOps == 5

\* number of physical connections of the pool
MaxConns == 2

\* number of wrappers the factory is asked for
MaxWrappers == 2

(* --------------------------- JavaScript values ------------------------- *)

Undefined == [t |-> "undefined"]

Null == [t |-> "null"]

Num(n) == [t |-> "num", v |-> n]

\* a JavaScript array
Arr(items) == [t |-> "array", items |-> items]

\* a plain object: m maps property names to values
Obj(m) == [t |-> "object", m |-> m]

EmptyMap == [k \in {} |-> Undefined]

\* mysql2's ResultSetHeader, as far as the wrapper reads it
Header(n) == [t |-> "header", affectedRows |-> n]

\* the two-element array mysql2's execute resolves to: [rows-or-header, fields]
Pair(a, b) == [t |-> "pair", first |-> a, second |-> b]

\* the object literal {rows, fields} built by fetchData
Result(rows, fields) == [t |-> "result", rows |-> rows, fields |-> fields]

\* one column-metadata record (FieldPacket), as far as the wrapper reads it
FieldPacket(name) == [t |-> "field", name |-> name]

\* a Field of the framework: {name, type}
Field(name, type) == [t |-> "Field", name |-> name, type |-> type]

\* outcomes of a call
Return(v) == [kind |-> "return", value |-> v]

Raise(e) == [kind |-> "raise", value |-> e]

TypeError == [t |-> "error", e |-> "TypeError"]

(* ------------------------------ strings -------------------------------- *)

UpperAlpha == <<"A","B","C","D","E","F","G","H","I","J","K","L","M",
                "N","O","P","Q","R","S","T","U","V","W","X","Y","Z">>

LowerAlpha == <<"a","b","c","d","e","f","g","h","i","j","k","l","m",
                "n","o","p","q","r","s","t","u","v","w","x","y","z">>

\* String.prototype.toLowerCase on one character
LowerChar(c) ==
    IF \E i \in 1..Len(UpperAlpha) : UpperAlpha[i] = c
    THEN LowerAlpha[CHOOSE i \in 1..Len(UpperAlpha) : UpperAlpha[i] = c]
    ELSE c

\* String.prototype.toUpperCase on one character
UpperChar(c) ==
    IF \E i \in 1..Len(LowerAlpha) : LowerAlpha[i] = c
    THEN UpperAlpha[CHOOSE i \in 1..Len(LowerAlpha) : LowerAlpha[i] = c]
    ELSE c

\* String.prototype.toLowerCase
toLowerCase(s) == [i \in 1..Len(s) |-> LowerChar(s[i])]

\* String.prototype.split on a one-character separator
RECURSIVE Split(_, _)
Split(s, d) ==
    IF \A i \in 1..Len(s) : s[i] # d
    THEN <<s>>
    ELSE LET i == CHOOSE j \in 1..Len(s) :
                      s[j] = d /\ \A k \in 1..(j - 1) : s[k] # d
         IN <<SubSeq(s, 1, i - 1)>> \o Split(SubSeq(s, i + 1, Len(s)), d)

\* the delimiter of nested column names
PathDelimiter == "."

\* the separator of snake_case segments
SnakeSeparator == "_"

Capitalize(seg) ==
    IF seg = <<>> THEN seg ELSE <<UpperChar(seg[1])>> \o Tail(seg)

RECURSIVE JoinCapitalized(_)
JoinCapitalized(segs) ==
    IF segs = <<>> THEN <<>>
    ELSE Capitalize(Head(segs)) \o JoinCapitalized(Tail(segs))

\* DBConnection.toCamel of the framework: snake_case to camelCase; the first
\* segment is kept, every later segment starts with an upper-case letter
toCamel(name) ==
    LET segs == Split(name, SnakeSeparator)
    IN Head(segs) \o JoinCapitalized(Tail(segs))

(* --------------------------- nested mappings --------------------------- *)

\* obj[k] = v on a property map
Put(m, k, v) == [x \in (DOMAIN m) \cup {k} |-> IF x = k THEN v ELSE m[x]]

RECURSIVE SetPath(_, _, _)
SetPath(m, segs, v) ==
    LET k == Head(segs)
    IN IF Len(segs) = 1
       THEN Put(m, k, v)
       ELSE LET child == IF k \in DOMAIN m /\ m[k].t = "object"
                         THEN m[k].m ELSE EmptyMap
            IN Put(m, k, Obj(SetPath(child, Tail(segs), v)))

\* DBConnection.setNestObj of the framework: writes value at the path that
\* key spells, creating or reusing the intermediate mappings
setNestObj(m, key, value) == SetPath(m, Split(key, PathDelimiter), value)

(* ------------------------- result normalization ------------------------ *)

\* the generic type tag FieldType.Text
FieldTypeText == "Text"

\* result.rows
PropRows(result) == IF result.t = "result" THEN result.rows ELSE Undefined

\* result.fields
PropFields(result) == IF result.t = "result" THEN result.fields ELSE Undefined

\* result.affectedRows
PropAffectedRows(result) ==
    IF result.t = "header" THEN Num(result.affectedRows) ELSE Undefined

\* v.length
PropLength(v) == IF v.t = "array" THEN Num(Len(v.items)) ELSE Undefined

\* reading a property of undefined or null throws
IsNullish(v) == v.t \in {"undefined", "null"}

\* row[name] on a row object
RowValue(row, name) ==
    IF row.t = "object" /\ name \in DOMAIN row.m THEN row.m[name] ELSE Undefined

getAffectRows(result) == Return(PropAffectedRows(result))

getRowSet(result) == Return(PropRows(result))

\* getFields that puts each Field in front of the list (unshift for push)
getFields_unshift(result) ==
    LET fields == PropFields(result)
    IN IF fields.t # "array"
       THEN Raise(TypeError)
       ELSE Return(Arr([i \in 1..Len(fields.items) |->
                Field(toCamel(fields.items[Len(fields.items) + 1 - i].name),
                      FieldTypeText)]))

getFields(result) ==
    LET fields == PropFields(result)
    IN IF fields.t # "array"
       THEN Raise(TypeError)
       ELSE Return(Arr([i \in 1..Len(fields.items) |->
                Field(toCamel(fields.items[i].name), FieldTypeText)]))

\* the loop of getFirstRow without toLowerCase on the column name
RECURSIVE FirstRowLoop_rawPath(_, _, _, _)
FirstRowLoop_rawPath(ds, fields, row, n) ==
    IF n = 0 THEN ds
    ELSE setNestObj(FirstRowLoop_rawPath(ds, fields, row, n - 1),
                    fields[n].name,
                    RowValue(row, fields[n].name))

\* the forEach loop of getFirstRow over fields[1..n]
RECURSIVE FirstRowLoop(_, _, _, _)
FirstRowLoop(ds, fields, row, n) ==
    IF n = 0 THEN ds
    ELSE setNestObj(FirstRowLoop(ds, fields, row, n - 1),
                    toLowerCase(fields[n].name),
                    RowValue(row, fields[n].name))

\* getFirstRow that answers an empty mapping when there is no row
getFirstRow_emptyMapping(result) ==
    LET rows == PropRows(result)
        fields == PropFields(result)
    IN IF IsNullish(rows)
       THEN Raise(TypeError)
       ELSE IF PropLength(rows).t = "num" /\ PropLength(rows).v > 0
            THEN IF fields.t # "array"
                 THEN Raise(TypeError)
                 ELSE Return(Obj(FirstRowLoop(EmptyMap, fields.items,
                                              rows.items[1], Len(fields.items))))
            ELSE Return(Obj(EmptyMap))

getFirstRow(result) ==
    LET rows == PropRows(result)
        fields == PropFields(result)
    IN IF IsNullish(rows)
       THEN Raise(TypeError)
       ELSE IF PropLength(rows).t = "num" /\ PropLength(rows).v > 0
            THEN IF fields.t # "array"
                 THEN Raise(TypeError)
                 ELSE Return(Obj(FirstRowLoop(EmptyMap, fields.items,
                                              rows.items[1], Len(fields.items))))
            ELSE Return(Null)

(* ------------------------- trace of side effects ----------------------- *)

\* this.#client.beginTransaction(), commit(), rollback(), release()
DriverCall(name) == [ev |-> "driver", call |-> name]

\* this.logger.debug(sql, params)
LogDebug(text, args) ==
    [ev |-> "log", level |-> "debug", sql |-> text, params |-> args]

\* this.logger.error('Cannot rollback the database.\n' + e)
LogError(e) ==
    [ev |-> "log", level |-> "error", msg |-> "Cannot rollback the database.",
     error |-> e]

\* this.#client.execute(sql, params)
DriverExecute(sql, params) ==
    [ev |-> "driver", call |-> "execute", sql |-> sql, params |-> params]

\* what one run of a method did: the side effects in order, and how it ended
Run(events, outcome) == [events |-> events, outcome |-> outcome]

(* --------------------------- wrapper methods --------------------------- *)
\* resp is the way the driver call of the method ends: Return(v) or Raise(e)

beginTransaction(resp) ==
    Run(<<DriverCall("beginTransaction")>>,
        IF resp.kind = "raise" THEN resp ELSE Return(Undefined))

close == Run(<<DriverCall("release")>>, Return(Undefined))

\* commit that rolls back by itself when the driver's commit fails
commit_autoRollback(resp) ==
    IF resp.kind = "raise"
    THEN Run(<<DriverCall("commit"), DriverCall("rollback")>>, resp)
    ELSE Run(<<DriverCall("commit")>>, Return(Undefined))

commit(resp) ==
    Run(<<DriverCall("commit")>>,
        IF resp.kind = "raise" THEN resp ELSE Return(Undefined))

\* rollback without the try/catch: the driver's failure reaches the caller
rollback_propagating(resp) ==
    Run(<<DriverCall("rollback")>>,
        IF resp.kind = "raise" THEN resp ELSE Return(Undefined))

rollback(resp) ==
    IF resp.kind = "raise"
    THEN Run(<<DriverCall("rollback"), LogError(resp.value)>>, Return(Undefined))
    ELSE Run(<<DriverCall("rollback")>>, Return(Undefined))

executeUpdate(sql, params, resp) ==
    Run(<<LogDebug(sql, params), DriverExecute(sql, params)>>,
        IF resp.kind = "raise" THEN resp ELSE getAffectRows(resp.value))

\* fetchData that canonicalizes the column names it returns
fetchData_canonical(sql, params, resp) ==
    Run(<<LogDebug(sql, params), DriverExecute(sql, params)>>,
        IF resp.kind = "raise" THEN resp
        ELSE IF resp.value.t = "pair"
             THEN Return(Result(resp.value.first,
                    IF resp.value.second.t = "array"
                    THEN Arr([i \in 1..Len(resp.value.second.items) |->
                            FieldPacket(toCamel(resp.value.second.items[i].name))])
                    ELSE resp.value.second))
             ELSE Raise(TypeError))

\* let [rows, fields] = await execute(...): array destructuring of the answer
fetchData(sql, params, resp) ==
    Run(<<LogDebug(sql, params), DriverExecute(sql, params)>>,
        IF resp.kind = "raise" THEN resp
        ELSE IF resp.value.t = "pair"
             THEN Return(Result(resp.value.first, resp.value.second))
             ELSE Raise(TypeError))

executeSQL(sql, resp) == Run(<<DriverExecute(sql, Undefined)>>, resp)

insertRecord(sql, params, resp) ==
    Run(<<LogDebug(sql, params), DriverExecute(sql, params)>>,
        IF resp.kind = "raise" THEN resp ELSE getFirstRow(resp.value))

updateRecord(sql, params, resp) ==
    Run(<<LogDebug(sql, params), DriverExecute(sql, params)>>,
        IF resp.kind = "raise" THEN resp ELSE getFirstRow(resp.value))

\* deleteRecord written like insertRecord and updateRecord
deleteRecord_viaFirstRow(sql, params, resp) ==
    Run(<<LogDebug(sql, params), DriverExecute(sql, params)>>,
        IF resp.kind = "raise" THEN resp ELSE getFirstRow(resp.value))

deleteRecord(sql, params, resp) == executeUpdate(sql, params, resp)

(* -------------------------------- inputs ------------------------------- *)

Str(s) == [t |-> "string", v |-> s]

Err(e) == [t |-> "error", e |-> e]

\* errors the driver rejects a call with
DriverErrors == {Err("ER_DUP_ENTRY"), Err("ECONNRESET")}

\* "user_id"
ColUserId == <<"u","s","e","r","_","i","d">>

\* "first_name"
ColFirstName == <<"f","i","r","s","t","_","n","a","m","e">>

\* "profile.city"
ColProfileCity == <<"p","r","o","f","i","l","e",".","c","i","t","y">>

\* "PROFILE.Zip"
ColProfileZip == <<"P","R","O","F","I","L","E",".","Z","i","p">>

ColumnNames == {ColUserId, ColFirstName, ColProfileCity, ColProfileZip}

CellValues == {Num(7), Str("NY")}

SeqsUpTo(S, n) == UNION {[1..k -> S] : k \in 0..n}

NamesOf(cols) == {cols[i] : i \in 1..Len(cols)}

\* the row objects the driver builds for a column list: one key per column name
RowsFor(cols) == {Obj(m) : m \in [NamesOf(cols) -> CellValues]}

FieldPackets(cols) == Arr([i \in 1..Len(cols) |-> FieldPacket(cols[i])])

\* the column lists of the row sets handed to getFields and getFirstRow
ColumnLists == SeqsUpTo(ColumnNames, MaxCols)

\* the row sequences the driver may deliver for a column list
RowLists(cols) == SeqsUpTo(RowsFor(cols), MaxRows)

\* what fetchData makes of the driver's rows and column metadata
RowSetResult(rows, cols) == Result(Arr(rows), FieldPackets(cols))

\* what execute resolves to for INSERT, UPDATE, DELETE and DDL
HeaderAnswers == {Pair(Header(n), Undefined) : n \in 0..MaxAffected}

\* the row set of the example: columns user_id and profile.city, one row
ExampleRow ==
    Obj([k \in {ColUserId, ColProfileCity} |->
            IF k = ColUserId THEN Num(7) ELSE Str("NY")])

ExampleAnswer ==
    Pair(Arr(<<ExampleRow>>), FieldPackets(<<ColUserId, ColProfileCity>>))

EmptyAnswer == Pair(Arr(<<>>), FieldPackets(<<ColUserId, ColFirstName>>))

\* the ways a driver execute call ends
ExecuteResponses ==
    {Raise(e) : e \in DriverErrors}
        \cup {Return(a) : a \in HeaderAnswers \cup {ExampleAnswer, EmptyAnswer}}

\* the ways beginTransaction, commit and rollback of the driver end
ControlResponses == {Raise(e) : e \in DriverErrors} \cup {Return(Undefined)}

UpdateSql == "UPDATE t SET x=? WHERE id=?"

SelectSql == "SELECT * FROM t"

\* statements with their bound parameters; params may be omitted
Statements ==
    {[sql |-> UpdateSql, params |-> Arr(<<Num(1), Num(5)>>)],
     [sql |-> SelectSql, params |-> Undefined]}

\* the results without rows handed to getFields and getFirstRow: what
\* fetchData makes of a result header, the driver's answer itself, the header
HeaderInputs ==
    {Result(a.first, a.second) : a \in HeaderAnswers}
        \cup HeaderAnswers
        \cup {Header(n) : n \in 0..MaxAffected}

(* ------------------------------- actions ------------------------------- *)

\* the physical connections of the pool
Conns == 1..MaxConns

\* the wrappers createDBConnection may build
Wrappers == 1..MaxWrappers

\* #client of a wrapper that is not built yet
NoConn == 0

\* new MysqlDBConnection(conn) for the first wrapper and the first connection:
\* the state the method calls of a single wrapper start from
Init ==
    /\ released = 0
    /\ trace = <<>>
    /\ last = NoCall
    /\ nops = 0
    /\ pc = "any"
    /\ free = Conns \ {1}
    /\ client = [w \in Wrappers |-> IF w = 1 THEN 1 ELSE NoConn]
    /\ acquired = 1

Releases(events) ==
    Cardinality({i \in 1..Len(events) :
        events[i].ev = "driver" /\ events[i].call = "release"})

\* a method may be called while the bound on calls allows it
CanCall == nops < MaxOps

\* what one method call does to the trace and to the record of the last call
Does(call, run) ==
    /\ nops' = nops + 1
    /\ trace' = trace \o run.events
    /\ released' = released + Releases(run.events)
    /\ last' = [op |-> call.op, sql |-> call.sql, params |-> call.params,
                outcome |-> run.outcome, resp |-> call.resp]

\* the effect of one method call of the single wrapper: its side effects are
\* appended to the trace
Effect(call, run) ==
    /\ Does(call, run)
    /\ UNCHANGED factoryVars

Call(op, sql, params, resp) ==
    [op |-> op, sql |-> sql, params |-> params, resp |-> resp]

BeginTransaction ==
    /\ CanCall
    /\ \E resp \in ControlResponses :
          Effect(Call("beginTransaction", "", Undefined, resp),
                 beginTransaction(resp))

Close ==
    /\ CanCall
    /\ Effect(Call("close", "", Undefined, Return(Undefined)), close)

Commit ==
    /\ CanCall
    /\ \E resp \in ControlResponses :
          Effect(Call("commit", "", Undefined, resp), commit(resp))

Rollback ==
    /\ CanCall
    /\ \E resp \in ControlResponses :
          Effect(Call("rollback", "", Undefined, resp), rollback(resp))

ExecuteUpdate ==
    /\ CanCall
    /\ \E st \in Statements, resp \in ExecuteResponses :
          Effect(Call("executeUpdate", st.sql, st.params, resp),
                 executeUpdate(st.sql, st.params, resp))

FetchData ==
    /\ CanCall
    /\ \E st \in Statements, resp \in ExecuteResponses :
          Effect(Call("fetchData", st.sql, st.params, resp),
                 fetchData(st.sql, st.params, resp))

ExecuteSQL ==
    /\ CanCall
    /\ \E st \in Statements, resp \in ExecuteResponses :
          Effect(Call("executeSQL", st.sql, Undefined, resp),
                 executeSQL(st.sql, resp))

InsertRecord ==
    /\ CanCall
    /\ \E st \in Statements, resp \in ExecuteResponses :
          Effect(Call("insertRecord", st.sql, st.params, resp),
                 insertRecord(st.sql, st.params, resp))

UpdateRecord ==
    /\ CanCall
    /\ \E st \in Statements, resp \in ExecuteResponses :
          Effect(Call("updateRecord", st.sql, st.params, resp),
                 updateRecord(st.sql, st.params, resp))

DeleteRecord ==
    /\ CanCall
    /\ \E st \in Statements, resp \in ExecuteResponses :
          Effect(Call("deleteRecord", st.sql, st.params, resp),
                 deleteRecord(st.sql, st.params, resp))

Next ==
    \/ BeginTransaction
    \/ Close
    \/ Commit
    \/ Rollback
    \/ ExecuteUpdate
    \/ FetchData
    \/ ExecuteSQL
    \/ InsertRecord
    \/ UpdateRecord
    \/ DeleteRecord

Spec == Init /\ [][Next]_vars

(* ---------------- the synchronous result accessors, alone -------------- *)

\* a result accessor is applied once, on a fresh wrapper
Fresh == last = NoCall

\* the effect of a result accessor: none but its outcome
Apply(op, result, outcome) ==
    /\ last' = [op |-> op, outcome |-> outcome, arg |-> result]
    /\ UNCHANGED <<released, trace, nops>>
    /\ UNCHANGED factoryVars

GetFields ==
    /\ Fresh
    /\ \/ \E cols \in ColumnLists : \E rows \in RowLists(cols) :
             LET r == RowSetResult(rows, cols)
             IN Apply("getFields", r, getFields(r))
       \/ \E r \in HeaderInputs :
             Apply("getFields", r, getFields(r))

GetFirstRow ==
    /\ Fresh
    /\ \/ \E cols \in ColumnLists : \E rows \in RowLists(cols) :
             LET r == RowSetResult(rows, cols)
             IN Apply("getFirstRow", r, getFirstRow(r))
       \/ \E r \in HeaderInputs :
             Apply("getFirstRow", r, getFirstRow(r))

NextNorm ==
    \/ GetFields
    \/ GetFirstRow

SpecNorm == Init /\ [][NextNorm]_vars

(* ------------------------- the factory and its pool -------------------- *)

\* a physical PoolConnection of the pool
Connection(c) == [t |-> "connection", id |-> c]

\* the MysqlDBConnection object createDBConnection builds
Wrapper(w) == [t |-> "wrapper", id |-> w]

\* the error of a pool that cannot supply a connection
PoolError == Err("ER_CON_COUNT_ERROR")

\* the ways this.#pool.getConnection() ends: a connection the pool holds
\* free, or the pool's error
PoolResponses == {Return(Connection(c)) : c \in free} \cup {Raise(PoolError)}

\* new MysqlDBConnection(await this.#pool.getConnection())
createDBConnection(w, resp) ==
    Run(<<DriverCall("getConnection")>>,
        IF resp.kind = "raise" THEN resp ELSE Return(Wrapper(w)))

\* the effect of createDBConnection: the wrapper it returns is bound to the
\* connection the pool handed out
Create(w, resp) ==
    LET run == createDBConnection(w, resp)
    IN /\ nops' = nops + 1
       /\ trace' = trace \o run.events
       /\ last' = [op |-> "createDBConnection", outcome |-> run.outcome,
                   resp |-> resp]
       /\ IF run.outcome.kind = "return"
          THEN /\ client' = [client EXCEPT ![w] = resp.value.id]
               /\ free' = free \ {resp.value.id}
               /\ acquired' = acquired + 1
          ELSE UNCHANGED <<client, free, acquired>>
       /\ UNCHANGED released

\* the effect of close() on the pool: release() hands #client back
Release(w) == free' = free \cup {client[w]}

\* the factory after initializeMySQL(config): no wrapper yet, every
\* connection of the pool free
InitFactory ==
    /\ released = 0
    /\ trace = <<>>
    /\ last = NoCall
    /\ nops = 0
    /\ free = Conns
    /\ client = [w \in Wrappers |-> NoConn]
    /\ acquired = 0

(* ------------- the transaction script of one caller (README) ----------- *)
\* acquire, beginTransaction, executeUpdate, commit or, when one of them
\* raised, rollback, and close in every case

\* the wrapper of the scripted caller
Caller == 1

InitProtocol == InitFactory /\ pc = "start"

\* where the try block goes after a call: on, or to the catch block
After(run, next) == IF run.outcome.kind = "raise" THEN "rollback" ELSE next

ProtocolCreate ==
    /\ pc = "start"
    /\ \E resp \in PoolResponses :
          /\ Create(Caller, resp)
          /\ pc' = IF resp.kind = "raise" THEN "failed" ELSE "begin"

ProtocolBegin ==
    /\ pc = "begin"
    /\ \E resp \in ControlResponses :
          /\ Does(Call("beginTransaction", "", Undefined, resp),
                  beginTransaction(resp))
          /\ pc' = After(beginTransaction(resp), "update")
          /\ UNCHANGED <<free, client, acquired>>

ProtocolUpdate ==
    /\ pc = "update"
    /\ \E st \in Statements, resp \in ExecuteResponses :
          /\ Does(Call("executeUpdate", st.sql, st.params, resp),
                  executeUpdate(st.sql, st.params, resp))
          /\ pc' = After(executeUpdate(st.sql, st.params, resp), "commit")
          /\ UNCHANGED <<free, client, acquired>>

ProtocolCommit ==
    /\ pc = "commit"
    /\ \E resp \in ControlResponses :
          /\ Does(Call("commit", "", Undefined, resp), commit(resp))
          /\ pc' = After(commit(resp), "close")
          /\ UNCHANGED <<free, client, acquired>>

\* the catch block; the finally block follows however rollback ends
ProtocolRollback ==
    /\ pc = "rollback"
    /\ \E resp \in ControlResponses :
          /\ Does(Call("rollback", "", Undefined, resp), rollback(resp))
          /\ pc' = "close"
          /\ UNCHANGED <<free, client, acquired>>

\* the finally block
ProtocolClose ==
    /\ pc = "close"
    /\ Does(Call("close", "", Undefined, Return(Undefined)), close)
    /\ Release(Caller)
    /\ pc' = "done"
    /\ UNCHANGED <<client, acquired>>

NextProtocol ==
    \/ ProtocolCreate
    \/ ProtocolBegin
    \/ ProtocolUpdate
    \/ ProtocolCommit
    \/ ProtocolRollback
    \/ ProtocolClose

SpecProtocol == InitProtocol /\ [][NextProtocol]_vars

(* ------------------ callers that share the factory's pool -------------- *)
\* any caller may ask the factory for a wrapper and call a wrapper it holds;
\* no method of a wrapper looks at anything but its #client

InitPool == InitFactory /\ pc = "any"

CanCallPool == nops < MaxPoolOps

\* the answers of the driver to the statements of these callers
PoolExecuteResponses == {Raise(Err("ECONNRESET")), Return(Pair(Header(1), Undefined))}

\* wrappers are numbered in the order the factory builds them
PoolCreate ==
    /\ CanCallPool
    /\ \E w \in Wrappers :
          /\ client[w] = NoConn
          /\ \A v \in Wrappers : v < w => client[v] # NoConn
          /\ \E resp \in PoolResponses : Create(w, resp)
          /\ UNCHANGED pc

PoolExecuteUpdate ==
    /\ CanCallPool
    /\ \E w \in Wrappers :
          /\ client[w] # NoConn
          /\ \E resp \in PoolExecuteResponses :
                Does(Call("executeUpdate", UpdateSql, Arr(<<Num(1), Num(w)>>), resp),
                     executeUpdate(UpdateSql, Arr(<<Num(1), Num(w)>>), resp))
          /\ UNCHANGED factoryVars

PoolClose ==
    /\ CanCallPool
    /\ \E w \in Wrappers :
          /\ client[w] # NoConn
          /\ Does(Call("close", "", Undefined, Return(Undefined)), close)
          /\ Release(w)
          /\ UNCHANGED <<pc, client, acquired>>

NextPool ==
    \/ PoolCreate
    \/ PoolExecuteUpdate
    \/ PoolClose

SpecPool == InitPool /\ [][NextPool]_vars

(* =============================== claims ================================ *)

\* the side effects the step from the unprimed to the primed state appended
Added == SubSeq(trace', Len(trace) + 1, Len(trace'))

DriverEvents(events) == SelectSeq(events, LAMBDA e : e.ev = "driver")

LogEvents(events) == SelectSeq(events, LAMBDA e : e.ev = "log")

\* the driver answered the last execute with a result header: [header, undefined]
AnsweredHeader ==
    /\ last.resp.kind = "return"
    /\ last.resp.value.t = "pair"
    /\ last.resp.value.first.t = "header"

\* C1: when the driver's execute succeeds and its result header reports n
\* affected rows, executeUpdate returns n.
C1_ExecuteUpdateReturnsCount ==
    (last.op = "executeUpdate" /\ AnsweredHeader)
        => last.outcome = Return(Num(last.resp.value.first.affectedRows))

\* C2: rollback() always completes normally; it calls the driver's rollback
\* once, logs one error record iff that call failed, and releases nothing.
C2_RollbackNeverRaises ==
    [][last'.op = "rollback" =>
        /\ last'.outcome = Return(Undefined)
        /\ DriverEvents(Added) = <<DriverCall("rollback")>>
        /\ LogEvents(Added) =
              (IF last'.resp.kind = "raise"
               THEN <<LogError(last'.resp.value)>> ELSE <<>>)
        /\ released' = released]_vars

C2_Witness ==
    /\ last.op = "rollback"
    /\ last.resp.kind = "raise"
    /\ last.outcome.kind = "return"
    /\ trace[Len(trace)] = LogError(last.resp.value)

\* the driver call a wrapper method stands for
DriverCallOf(op) ==
    IF op \in {"executeUpdate", "fetchData"} THEN "execute" ELSE op

\* C3: when the driver's beginTransaction, commit or execute fails with e,
\* beginTransaction, commit, executeUpdate and fetchData fail with that same
\* e, and the failing call is the only driver call made: no rollback, no
\* release.
C3_ErrorsPropagateUnchanged ==
    [][(/\ last'.op \in {"beginTransaction", "commit", "executeUpdate", "fetchData"}
        /\ last'.resp.kind = "raise") =>
        /\ last'.outcome = Raise(last'.resp.value)
        /\ Len(DriverEvents(Added)) = 1
        /\ DriverEvents(Added)[1].call = DriverCallOf(last'.op)
        /\ released' = released]_vars

C3_Witness ==
    /\ last.op = "commit"
    /\ last.resp = Raise(Err("ECONNRESET"))
    /\ last.outcome = Raise(Err("ECONNRESET"))
    /\ released = 0

\* C4: a deleteRecord step does exactly what executeUpdate does from the same
\* state with the same statement, parameters and driver answer: the same log
\* record, the same single execute call, the same outcome.
C4_DeleteRecordIsExecuteUpdate ==
    [][last'.op = "deleteRecord" =>
        LET run == executeUpdate(last'.sql, last'.params, last'.resp)
        IN /\ Added = run.events
           /\ last'.outcome = run.outcome
           /\ released' = released]_vars

C4_Witness ==
    /\ last.op = "deleteRecord"
    /\ AnsweredHeader
    /\ last.outcome.kind = "return"
    /\ Len(trace) >= 2
    /\ trace[Len(trace)] = DriverExecute(last.sql, last.params)
    /\ trace[Len(trace) - 1] = LogDebug(last.sql, last.params)

\* C5: when the driver's result carries no row data (a result header),
\* insertRecord and updateRecord complete and yield the null or empty
\* projection instead of raising.
C5_InsertUpdateYieldEmptyProjection ==
    (last.op \in {"insertRecord", "updateRecord"} /\ AnsweredHeader)
        => /\ last.outcome.kind = "return"
           /\ last.outcome.value \in {Null, Obj(EmptyMap)}

\* the driver answered the last execute with rows and column metadata
AnsweredRows ==
    /\ last.resp.kind = "return"
    /\ last.resp.value.t = "pair"
    /\ last.resp.value.first.t = "array"
    /\ last.resp.value.second.t = "array"

\* C6: fetchData returns {rows, fields} holding the driver's rows and the
\* driver's column metadata, element by element in the driver's order and
\* with the raw column names, also when params is omitted.
C6_FetchDataReturnsRaw ==
    (last.op = "fetchData" /\ AnsweredRows) =>
        LET rows == last.resp.value.first.items
            fields == last.resp.value.second.items
            out == last.outcome
        IN /\ out.kind = "return"
           /\ out.value.t = "result"
           /\ out.value.rows.t = "array"
           /\ Len(out.value.rows.items) = Len(rows)
           /\ \A i \in 1..Len(rows) : out.value.rows.items[i] = rows[i]
           /\ out.value.fields.t = "array"
           /\ Len(out.value.fields.items) = Len(fields)
           /\ \A i \in 1..Len(fields) :
                 out.value.fields.items[i].name = fields[i].name

C6_Witness ==
    /\ last.op = "fetchData"
    /\ last.params = Undefined
    /\ last.resp = Return(ExampleAnswer)
    /\ last.outcome.kind = "return"
    /\ last.outcome.value.fields.items[2].name = ColProfileCity

\* getFirstRow was last applied to a result with a row collection and column
\* metadata
FirstRowOfRowSet ==
    /\ last.op = "getFirstRow"
    /\ last.arg.t = "result"
    /\ last.arg.rows.t = "array"
    /\ last.arg.fields.t = "array"

\* C7: getFirstRow of a result without rows is null, never a mapping; of a
\* result with at least one row it is a mapping, never null.
C7_NoRowSentinel ==
    FirstRowOfRowSet =>
        IF Len(last.arg.rows.items) = 0
        THEN last.outcome = Return(Null)
        ELSE last.outcome.kind = "return" /\ last.outcome.value.t = "object"

C7_Witness ==
    /\ FirstRowOfRowSet
    /\ Len(last.arg.rows.items) = 0
    /\ Len(last.arg.fields.items) = 2
    /\ last.outcome = Return(Null)

\* the path a raw column name spells: lower-cased, split on the delimiter
PathOf(name) == Split(toLowerCase(name), PathDelimiter)

\* the value at a path of a nested mapping, Undefined where there is none
RECURSIVE Lookup(_, _)
Lookup(m, path) ==
    IF Head(path) \notin DOMAIN m THEN Undefined
    ELSE IF Len(path) = 1 THEN m[Head(path)]
    ELSE IF m[Head(path)].t # "object" THEN Undefined
    ELSE Lookup(m[Head(path)].m, Tail(path))

\* the paths of the leaves of a nested mapping
RECURSIVE LeafPaths(_)
LeafPaths(m) ==
    UNION {IF m[k].t = "object"
           THEN {<<k>> \o p : p \in LeafPaths(m[k].m)}
           ELSE {<<k>>} : k \in DOMAIN m}

\* the nested mapping of the example: {user_id: 7, profile: {city: NY}}
ExampleNested ==
    Obj([k \in {ColUserId, <<"p","r","o","f","i","l","e">>} |->
            IF k = ColUserId THEN Num(7)
            ELSE Obj([c \in {<<"c","i","t","y">>} |-> Str("NY")])])

\* C8: for a result with at least one row, getFirstRow holds, at the path of
\* every column (the last of the columns spelling the same path wins), the
\* value row 0 stores under the raw column name; it has no other leaves, so
\* later rows never show; the example gives {user_id: 7, profile: {city: NY}}.
C8_FirstRowNested ==
    (FirstRowOfRowSet /\ Len(last.arg.rows.items) > 0) =>
        LET fields == last.arg.fields.items
            row0 == last.arg.rows.items[1]
            out == last.outcome.value
        IN /\ last.outcome.kind = "return"
           /\ out.t = "object"
           /\ \A i \in 1..Len(fields) :
                 (\A j \in (i + 1)..Len(fields) :
                      PathOf(fields[j].name) # PathOf(fields[i].name))
                 => Lookup(out.m, PathOf(fields[i].name)) = row0.m[fields[i].name]
           /\ LeafPaths(out.m) = {PathOf(fields[i].name) : i \in 1..Len(fields)}
           /\ (last.arg = Result(ExampleAnswer.first, ExampleAnswer.second)
                 => out = ExampleNested)

C8_Witness ==
    /\ FirstRowOfRowSet
    /\ Len(last.arg.rows.items) = 2
    /\ last.arg.rows.items[1] # last.arg.rows.items[2]
    /\ last.arg.fields = FieldPackets(<<ColProfileCity, ColProfileZip>>)
    /\ last.outcome.kind = "return"
    /\ DOMAIN last.outcome.value.m = {<<"p","r","o","f","i","l","e">>}
    /\ DOMAIN last.outcome.value.m[<<"p","r","o","f","i","l","e">>].m
          = {<<"c","i","t","y">>, <<"z","i","p">>}

\* "userId"
CamelUserId == <<"u","s","e","r","I","d">>

\* "firstName"
CamelFirstName == <<"f","i","r","s","t","N","a","m","e">>

\* C9: getFields returns one Field per column-metadata record, in order: the
\* i-th has the camelCase form of the i-th raw column name and the type Text;
\* [user_id, first_name] gives [userId/Text, firstName/Text].
C9_GetFieldsInOrder ==
    (last.op = "getFields" /\ last.arg.t = "result" /\ last.arg.fields.t = "array") =>
        LET fields == last.arg.fields.items
            out == last.outcome
        IN /\ out.kind = "return"
           /\ out.value.t = "array"
           /\ Len(out.value.items) = Len(fields)
           /\ \A i \in 1..Len(fields) :
                 out.value.items[i] = Field(toCamel(fields[i].name), FieldTypeText)
           /\ (last.arg.fields = FieldPackets(<<ColUserId, ColFirstName>>)
                 => out.value.items = <<Field(CamelUserId, FieldTypeText),
                                        Field(CamelFirstName, FieldTypeText)>>)

C9_Witness ==
    /\ last.op = "getFields"
    /\ last.arg.t = "result"
    /\ last.arg.fields = FieldPackets(<<ColUserId, ColFirstName>>)
    /\ last.outcome.kind = "return"
    /\ last.outcome.value.items[2].name = CamelFirstName

\* C10: every driver execute in the trace comes right after a debug log
\* record carrying the same statement text and parameters.
C10_LogBeforeEveryExecute ==
    \A i \in 1..Len(trace) :
        (trace[i].ev = "driver" /\ trace[i].call = "execute")
            => /\ i > 1
               /\ trace[i - 1] = LogDebug(trace[i].sql, trace[i].params)

\* the driver calls of the trace that release the connection
ReleaseEvents ==
    {i \in 1..Len(trace) : trace[i].ev = "driver" /\ trace[i].call = "release"}

\* C11: in the script acquire, beginTransaction, executeUpdate, commit or
\* rollback, close, the connection is released exactly once, by close() at the
\* end and by nothing before; on the success path executeUpdate has returned
\* the count the server reported before commit is called; rollback() in the
\* catch block completes without raising; close() hands the connection back
\* to the pool.
C11_ProtocolReleasesOnce ==
    /\ released = (IF pc = "done" THEN 1 ELSE 0)
    /\ Cardinality(ReleaseEvents) = released
    /\ pc = "done" =>
          /\ trace[Len(trace)] = DriverCall("release")
          /\ last.op = "close"
          /\ client[Caller] \in free
    /\ pc = "commit" =>
          /\ last.op = "executeUpdate"
          /\ last.outcome.kind = "return"
          /\ AnsweredHeader =>
                last.outcome = Return(Num(last.resp.value.first.affectedRows))
    /\ (pc = "close" /\ last.op = "rollback") => last.outcome = Return(Undefined)

\* the wrappers the factory has built
Built == {w \in Wrappers : client[w] # NoConn}

\* every method of a built wrapper dispatches to its #client, closed or not
UsableThrough(w, c) == w \in Built /\ client[w] = c

\* C12: every successful createDBConnection() is one pool acquisition and
\* returns a new wrapper bound to the connection the pool handed out; when the
\* pool fails its error is the outcome and no wrapper is built; and no
\* physical connection is usable through two wrappers at a time.
C12_ExclusiveOwnership ==
    /\ acquired = Cardinality(Built)
    /\ last.op = "createDBConnection" =>
          IF last.resp.kind = "raise"
          THEN last.outcome = last.resp
          ELSE /\ last.outcome.kind = "return"
               /\ last.outcome.value.t = "wrapper"
               /\ client[last.outcome.value.id] = last.resp.value.id
    /\ \A c \in Conns : \A w1, w2 \in Wrappers :
          (UsableThrough(w1, c) /\ UsableThrough(w2, c)) => w1 = w2

====
